---- MODULE Spec2Model ----
(***************************************************************************)
(* Visual Lens of the storage management backend: the embedding model      *)
(* provider (app/services/feature_extractor.py), the identify / enroll /   *)
(* unenroll handlers (app/routers/identify.py) and the routes that delete  *)
(* items (items.py, locations.py, export.py).                              *)
(*                                                                         *)
(* Eleven specifications share the variables:                              *)
(*   SpecProvider  the provider's module globals under two threads, one    *)
(*                 statement of initialize_model / extract_features /      *)
(*                 activate_model per step;                                *)
(*   SpecModels    the provider's calls, one whole call per step;          *)
(*   SpecLens      the request handlers, one whole handler per step;       *)
(*   SpecMatch     the matching part of identify_item applied to corpora   *)
(*                 drawn from a bounded set;                               *)
(*   SpecScore     the scoring of one stored vector, for every similarity  *)
(*                 around the interval from the threshold to 1;            *)
(*   SpecEnroll    enroll_item as interleaved coroutines;                  *)
(*   SpecThreshold the matching under every threshold of a bounded range;  *)
(*   SpecLocations create_location and update_location (locations.py);     *)
(*   SpecSync      sync_push (sync.py) over one table;                     *)
(*   SpecWardrobe  the clothing and outfit handlers (wardrobe.py);         *)
(*   SpecBackup    the export and import handlers (export.py).             *)
(***************************************************************************)
EXTENDS Integers, Sequences, FiniteSets, TLC

None == "none"

(***************************************************************************)
(* Model artifacts.  A file name stands for the bytes stored under it.     *)
(***************************************************************************)
DEFAULT_MODEL_FILENAME == "mobilenetv2-12.onnx"

\* Files that may be placed in the models directory: two valid classifiers
\* of the catalog, a file onnxruntime cannot load, and a valid graph that
\* declares no inputs (get_inputs() is empty).
ModelFiles == {"mobilenetv2-12.onnx", "squeezenet1.0-12.onnx", "broken.onnx", "noinput.onnx"}

\* get_models_dir() (lines 89-99): the directory, which always exists.
ModelsDir == "."

\* The names a caller may pass as filename: the file names, a second
\* spelling of the default model's file, and the name of the directory
\* itself.
Names == ModelFiles \cup {"./mobilenetv2-12.onnx", ModelsDir}

\* get_models_dir() / filename (lines 102-104, 138, 161, 171, 182): the
\* file the path made from a name denotes.
FileOf(filename) ==
    IF filename = "./mobilenetv2-12.onnx" THEN "mobilenetv2-12.onnx" ELSE filename

\* The names download_model and save_uploaded_model may be given: the model
\* files, and a name without the .onnx extension.
UploadNames == ModelFiles \cup {"model.bin"}

\* The name matches "*.onnx" (line 111).
HasModelExtension(filename) == filename # "model.bin" /\ filename # ModelsDir

\* list_available_models (lines 107-118): the file names it enumerates.
list_available_models(g) == {f \in g.installed : HasModelExtension(f)}

\* path.exists() for the path made from a name.
PathExists(g, filename) ==
    FileOf(filename) \in g.installed \/ FileOf(filename) = ModelsDir

\* ort.InferenceSession(path) succeeds on the file.
Loadable(f) == f # "broken.onnx"

\* session.get_inputs()[0] exists.
HasInputs(f) == f # "noinput.onnx"

VARIABLES
    installed,      \* files present in get_models_dir()
    active_model,   \* _active_model
    session,        \* _session: None, or the file the session was built from
    input_name,     \* _input_name: None (""), or the model it was read from
    input_shape,    \* _input_shape: None (()), or the model it was read from
    output_name,    \* _output_name: None (""), or the model it was read from
    pc,             \* per thread: the statement it is about to execute
    local,          \* per thread: op, arg, model_path, inp, shape, used
    resp,           \* the outcome of the last completed call
    fk_enforced,    \* the database enforces foreign keys (ON DELETE CASCADE)
    locations,      \* ids of the rows of table locations
    items,          \* table items: id -> [current_location_id, image_url]
    history,        \* ids of the items that have movement_history rows
    embeddings,     \* table item_embeddings, in insertion order
    uploads,        \* files present in UPLOAD_DIR
    next_item,      \* the next fresh item id (uuid4)
    next_upload,    \* the next fresh upload file name (uuid4)
    location_rows,  \* table locations: id -> [kind, parent_id]
    outfits,        \* table outfits: id -> item_ids
    exported,       \* the payload of the last export, held by the client
    sync_rows,      \* a synchronised table: id -> [updated_at, data]
    clothing        \* item_data of clothing items: id -> metadata

provVars == <<installed, active_model, session, input_name, input_shape, output_name>>
moreVars == <<location_rows, outfits, exported, sync_rows, clothing>>
dbVars == <<fk_enforced, locations, items, history, embeddings, uploads, next_item, next_upload,
            moreVars>>
vars == <<installed, active_model, session, input_name, input_shape, output_name,
          pc, local, resp,
          fk_enforced, locations, items, history, embeddings, uploads, next_item, next_upload,
          location_rows, outfits, exported, sync_rows, clothing>>

\* No row in the tables of location_rows, outfits, sync_rows and clothing,
\* and no export taken.
NoMoreRows ==
    /\ location_rows = <<>>
    /\ outfits = <<>>
    /\ exported = <<>>
    /\ sync_rows = <<>>
    /\ clothing = <<>>

\* The event loop runs the async handlers (identify_item, enroll_item, which
\* call extract_features); the thread pool runs the sync ones (get_status,
\* which calls initialize_model) and the model management calls.
Procs == {"loop", "worker"}

\* The module globals as one value.
Globals == [installed |-> installed, active_model |-> active_model, session |-> session,
            input_name |-> input_name, input_shape |-> input_shape,
            output_name |-> output_name]

SetGlobals(g) ==
    /\ installed' = g.installed
    /\ active_model' = g.active_model
    /\ session' = g.session
    /\ input_name' = g.input_name
    /\ input_shape' = g.input_shape
    /\ output_name' = g.output_name

\* What line 285 reads: the session and the names the call is made with.
RunInputs(g, shape) ==
    [session |-> g.session, input_name |-> g.input_name, input_shape |-> shape,
     output_name |-> g.output_name]

NoUsed == [session |-> None, input_name |-> None, input_shape |-> None, output_name |-> None]

\* A thread's frame: the call it serves, its argument, model_path and inp of
\* initialize_model, the input shape preprocess_image read, and, once line
\* 285 was reached (ran), what _session.run was called with.  fresh: the
\* call started when no activate_model call was running, and none has
\* started since.
NoLocal == [op |-> None, arg |-> None, model_path |-> None, inp |-> None,
            shape |-> None, ran |-> FALSE, used |-> NoUsed, fresh |-> FALSE]

(***************************************************************************)
(* initialize_model, statement by statement, as functions of the globals.  *)
(***************************************************************************)

\* lines 199-209: the artifact is there, or it is the default and is fetched.
ResolveArtifact(g, download_ok) ==
    IF PathExists(g, g.active_model)
      THEN [ok |-> TRUE, g |-> g]
      ELSE IF g.active_model = DEFAULT_MODEL_FILENAME /\ download_ok
             THEN [ok |-> TRUE, g |-> [g EXCEPT !.installed = @ \cup {DEFAULT_MODEL_FILENAME}]]
             ELSE [ok |-> FALSE, g |-> g]

\* line 212: _session is assigned only when the constructor returns.
LoadSession(g, path) ==
    IF path \in g.installed /\ Loadable(path)
      THEN [ok |-> TRUE, g |-> [g EXCEPT !.session = path]]
      ELSE [ok |-> FALSE, g |-> g]

\* lines 218-219: inp = _session.get_inputs()[0]; _input_name = inp.name
IntrospectInput(g) ==
    IF g.session = None \/ ~HasInputs(g.session)
      THEN [ok |-> FALSE, g |-> g, inp |-> None]
      ELSE [ok |-> TRUE, g |-> [g EXCEPT !.input_name = g.session], inp |-> g.session]

\* line 220: _input_shape = tuple(inp.shape)
IntrospectShape(g, inp) == [g EXCEPT !.input_shape = inp]

\* line 221: _output_name = _session.get_outputs()[0].name
IntrospectOutput(g) ==
    IF g.session = None
      THEN [ok |-> FALSE, g |-> g]
      ELSE [ok |-> TRUE, g |-> [g EXCEPT !.output_name = g.session]]

\* initialize_model run without interruption.
InitializeModelSeq(g, download_ok) ==
    IF g.session # None THEN [ok |-> TRUE, g |-> g]
    ELSE LET path == FileOf(g.active_model)
             r1 == ResolveArtifact(g, download_ok)
             r2 == LoadSession(r1.g, path)
             r3 == IntrospectInput(r2.g)
             r4 == IntrospectOutput(IntrospectShape(r3.g, r3.inp))
         IN  IF ~r1.ok THEN [ok |-> FALSE, g |-> r1.g]
             ELSE IF ~r2.ok THEN [ok |-> FALSE, g |-> r2.g]
             ELSE IF ~r3.ok THEN [ok |-> FALSE, g |-> r3.g]
             ELSE r4

\* _session.run succeeds: there is a session and the names are its own.
RunOk(u) ==
    /\ u.session # None
    /\ u.input_name = u.session
    /\ u.output_name = u.session

(***************************************************************************)
(* Model management.                                                       *)
(***************************************************************************)

\* delete_model (lines 167-176): the name is compared with _active_model,
\* the file of the name is removed; unlink of the directory raises.
delete_model(g, filename) ==
    IF filename = g.active_model
      THEN [status |-> "InvalidOperation", g |-> g]
      ELSE IF FileOf(filename) \in g.installed
             THEN [status |-> "ok", g |-> [g EXCEPT !.installed = @ \ {FileOf(filename)}]]
             ELSE IF PathExists(g, filename)
                    THEN [status |-> "InternalError", g |-> g]
                    ELSE [status |-> "NotFound", g |-> g]

\* download_model (lines 135-155)
download_model(g, filename, download_ok) ==
    IF PathExists(g, filename) THEN [status |-> "ok", g |-> g]
    ELSE IF download_ok
           THEN [status |-> "ok", g |-> [g EXCEPT !.installed = @ \cup {FileOf(filename)}]]
           ELSE [status |-> "DownloadFailed", g |-> g]

\* save_uploaded_model (lines 158-164); write_bytes on the directory raises.
save_uploaded_model(g, filename) ==
    IF FileOf(filename) = ModelsDir THEN [status |-> "InternalError", g |-> g]
    ELSE [status |-> "ok", g |-> [g EXCEPT !.installed = @ \cup {FileOf(filename)}]]

\* activate_model without the check of lines 182-184.
activate_model_unchecked(g, filename) ==
    [status |-> "ok", g |-> [g EXCEPT !.active_model = filename, !.session = None]]

\* activate_model (lines 179-188) run without interruption.
activate_model(g, filename) ==
    IF ~PathExists(g, filename)
      THEN [status |-> "NotFound", g |-> g]
      ELSE [status |-> "ok", g |-> [g EXCEPT !.active_model = filename, !.session = None]]

\* extract_features that drops the session when it fails.
extract_features_reset_on_error(g, img, download_ok) ==
    LET i == InitializeModelSeq(g, download_ok)
        u == RunInputs(i.g, i.g.input_shape)
    IN  IF i.ok /\ img # "corrupt" /\ RunOk(u)
          THEN [ok |-> TRUE, g |-> i.g, model |-> u.session]
          ELSE [ok |-> FALSE, g |-> [i.g EXCEPT !.session = None], model |-> None]

\* extract_features (lines 274-296) run without interruption, up to the
\* inference call: model is the session the vector comes from.
extract_features(g, img, download_ok) ==
    LET i == InitializeModelSeq(g, download_ok)
        u == RunInputs(i.g, i.g.input_shape)
    IN  IF i.ok /\ img # "corrupt" /\ RunOk(u)
          THEN [ok |-> TRUE, g |-> i.g, model |-> u.session]
          ELSE [ok |-> FALSE, g |-> i.g, model |-> None]

(***************************************************************************)
(* SpecProvider: the provider under two threads.                           *)
(***************************************************************************)

Images == {"red", "corrupt"}

Goto(p, label) == pc' = [pc EXCEPT ![p] = label]

\* The call returns; its frame is dropped.
Finish(p) ==
    /\ pc' = [pc EXCEPT ![p] = "idle"]
    /\ local' = [local EXCEPT ![p] = NoLocal]

\* The event loop enters extract_features (identify_item line 68, enroll_item line 179).
StartExtract(p, img) ==
    /\ p = "loop" /\ pc[p] = "idle"
    /\ Goto(p, "init_check")
    /\ local' = [local EXCEPT ![p] = [NoLocal EXCEPT !.op = "extract", !.arg = img,
                                                    !.fresh = \A q \in Procs : local[q].op # "activate"]]
    /\ UNCHANGED <<provVars, resp>>
    /\ UNCHANGED dbVars

\* A pool thread enters initialize_model (get_status line 32).
StartStatus(p) ==
    /\ p = "worker" /\ pc[p] = "idle"
    /\ Goto(p, "init_check")
    /\ local' = [local EXCEPT ![p] = [NoLocal EXCEPT !.op = "status"]]
    /\ UNCHANGED <<provVars, resp>>
    /\ UNCHANGED dbVars

AfterInit(p) == IF local[p].op = "extract" THEN "preprocess" ELSE "return_ok"

\* lines 194-195
InitCheck(p) ==
    /\ pc[p] = "init_check"
    /\ Goto(p, IF session # None THEN AfterInit(p) ELSE "init_resolve")
    /\ UNCHANGED <<provVars, local, resp>>
    /\ UNCHANGED dbVars

\* lines 199-209
InitResolve(p) ==
    /\ pc[p] = "init_resolve"
    /\ \E download_ok \in BOOLEAN :
         LET r == ResolveArtifact(Globals, download_ok) IN
           /\ SetGlobals(r.g)
           /\ Goto(p, IF r.ok THEN "init_load" ELSE "return_fail")
    /\ local' = [local EXCEPT ![p].model_path = FileOf(active_model)]
    /\ UNCHANGED resp
    /\ UNCHANGED dbVars

\* line 212
InitLoad(p) ==
    /\ pc[p] = "init_load"
    /\ LET r == LoadSession(Globals, local[p].model_path) IN
         /\ SetGlobals(r.g)
         /\ Goto(p, IF r.ok THEN "init_input" ELSE "return_fail")
    /\ UNCHANGED <<local, resp>>
    /\ UNCHANGED dbVars

\* lines 218-219
InitInput(p) ==
    /\ pc[p] = "init_input"
    /\ LET r == IntrospectInput(Globals) IN
         /\ SetGlobals(r.g)
         /\ Goto(p, IF r.ok THEN "init_shape" ELSE "return_fail")
         /\ local' = [local EXCEPT ![p].inp = r.inp]
    /\ UNCHANGED resp
    /\ UNCHANGED dbVars

\* line 220
InitShape(p) ==
    /\ pc[p] = "init_shape"
    /\ SetGlobals(IntrospectShape(Globals, local[p].inp))
    /\ Goto(p, "init_output")
    /\ UNCHANGED <<local, resp>>
    /\ UNCHANGED dbVars

\* line 221
InitOutput(p) ==
    /\ pc[p] = "init_output"
    /\ LET r == IntrospectOutput(Globals) IN
         /\ SetGlobals(r.g)
         /\ Goto(p, IF r.ok THEN AfterInit(p) ELSE "return_fail")
    /\ UNCHANGED <<local, resp>>
    /\ UNCHANGED dbVars

\* lines 281-282: Image.open and preprocess_image, which reads _input_shape.
Preprocess(p) ==
    /\ pc[p] = "preprocess"
    /\ IF local[p].arg = "corrupt"
         THEN Goto(p, "return_fail") /\ UNCHANGED local
         ELSE Goto(p, "run") /\ local' = [local EXCEPT ![p].shape = input_shape]
    /\ UNCHANGED <<provVars, resp>>
    /\ UNCHANGED dbVars

\* line 285
Run(p) ==
    /\ pc[p] = "run"
    /\ LET u == RunInputs(Globals, local[p].shape) IN
         /\ local' = [local EXCEPT ![p].used = u, ![p].ran = TRUE]
         /\ Goto(p, IF RunOk(u) THEN "return_ok" ELSE "return_fail")
    /\ UNCHANGED <<provVars, resp>>
    /\ UNCHANGED dbVars

\* extract_features returns the vector / get_status reports model_ready.
ReturnOk(p) ==
    /\ pc[p] = "return_ok"
    /\ Finish(p)
    /\ UNCHANGED <<provVars, resp>>
    /\ UNCHANGED dbVars

\* lines 294-296 (ValueError) / get_status lines 34-35 (model_ready = False).
ReturnFail(p) ==
    /\ pc[p] = "return_fail"
    /\ Finish(p)
    /\ UNCHANGED <<provVars, resp>>
    /\ UNCHANGED dbVars

\* activate_model lines 182-184.  For a file that is not installed the call
\* raises FileNotFoundError here and has changed nothing.
ActivateCheck(p, filename) ==
    /\ p = "worker" /\ pc[p] = "idle"
    /\ PathExists(Globals, filename)
    /\ local' = [q \in Procs |->
                   IF q = p THEN [NoLocal EXCEPT !.op = "activate", !.arg = filename]
                   ELSE [local[q] EXCEPT !.fresh = FALSE]]
    /\ Goto(p, "activate_set")
    /\ UNCHANGED <<provVars, resp>>
    /\ UNCHANGED dbVars

\* line 186
ActivateSet(p) ==
    /\ pc[p] = "activate_set"
    /\ active_model' = local[p].arg
    /\ Goto(p, "activate_reset")
    /\ UNCHANGED <<installed, session, input_name, input_shape, output_name, local, resp>>
    /\ UNCHANGED dbVars

\* line 187
ActivateReset(p) ==
    /\ pc[p] = "activate_reset"
    /\ session' = None
    /\ Finish(p)
    /\ UNCHANGED <<installed, active_model, input_name, input_shape, output_name, resp>>
    /\ UNCHANGED dbVars

NoResp == [op |-> None, arg |-> None, status |-> None, matches |-> <<>>]

\* An empty database.
EmptyDb ==
    /\ locations = {}
    /\ items = <<>>
    /\ history = {}
    /\ embeddings = <<>>
    /\ uploads = {}
    /\ next_item = 1
    /\ next_upload = 1
    /\ NoMoreRows

\* Process start: nothing loaded, the configured model is the default one.
\* The models directory holds the files put there earlier; the default
\* model may still have to be fetched.
InitProvider ==
    /\ installed \in {ModelFiles, ModelFiles \ {DEFAULT_MODEL_FILENAME}}
    /\ active_model = DEFAULT_MODEL_FILENAME
    /\ session = None
    /\ input_name = None
    /\ input_shape = None
    /\ output_name = None
    /\ pc = [p \in Procs |-> "idle"]
    /\ local = [p \in Procs |-> NoLocal]
    /\ resp = NoResp
    /\ fk_enforced = TRUE
    /\ EmptyDb

NextProvider ==
    \E p \in Procs :
        \/ \E img \in Images : StartExtract(p, img)
        \/ StartStatus(p)
        \/ InitCheck(p)
        \/ InitResolve(p)
        \/ InitLoad(p)
        \/ InitInput(p)
        \/ InitShape(p)
        \/ InitOutput(p)
        \/ Preprocess(p)
        \/ Run(p)
        \/ ReturnOk(p)
        \/ ReturnFail(p)
        \/ \E f \in ModelFiles : ActivateCheck(p, f)
        \/ ActivateSet(p)
        \/ ActivateReset(p)

SpecProvider == InitProvider /\ [][NextProvider]_vars

\* C1: every extraction call that reaches inference runs on one fully
\* initialized session: after its own initialize step the session is not
\* absent, and the input name, input shape and output name it uses were
\* read from the very model its session was built from.
C1_OneInitializedSessionPerCall ==
    \A p \in Procs :
        local[p].ran =>
            /\ local[p].used.session # None
            /\ local[p].used.input_name = local[p].used.session
            /\ local[p].used.input_shape = local[p].used.session
            /\ local[p].used.output_name = local[p].used.session

\* C14: an extraction call that starts after the last activate_model call
\* has returned runs inference on the session of the model that call made
\* active.
C14_ExtractionRunsOnActivatedModel ==
    \A p \in Procs :
        (local[p].ran /\ local[p].fresh) =>
            local[p].used.session = FileOf(active_model)

(***************************************************************************)
(* SpecModels: the provider's calls one at a time.                         *)
(***************************************************************************)

Respond(op, arg, status) ==
    resp' = [op |-> op, arg |-> arg, status |-> status, matches |-> <<>>]

\* get_status lines 30-35: initialize_model, reported as model_ready.
GetStatus ==
    /\ \E download_ok \in BOOLEAN :
         LET r == InitializeModelSeq(Globals, download_ok) IN
           /\ SetGlobals(r.g)
           /\ Respond("initialize", None, IF r.ok THEN "ok" ELSE "ModelUnavailable")
    /\ UNCHANGED <<pc, local>>
    /\ UNCHANGED dbVars

ExtractFeatures(img) ==
    /\ \E download_ok \in BOOLEAN :
         LET r == extract_features(Globals, img, download_ok) IN
           /\ SetGlobals(r.g)
           /\ Respond("extract", img, IF r.ok THEN "ok" ELSE "ExtractionFailed")
    /\ UNCHANGED <<pc, local>>
    /\ UNCHANGED dbVars

ActivateModel(filename) ==
    /\ LET r == activate_model(Globals, filename) IN
         SetGlobals(r.g) /\ Respond("activate", filename, r.status)
    /\ UNCHANGED <<pc, local>>
    /\ UNCHANGED dbVars

DeleteModel(filename) ==
    /\ LET r == delete_model(Globals, filename) IN
         SetGlobals(r.g) /\ Respond("delete", filename, r.status)
    /\ UNCHANGED <<pc, local>>
    /\ UNCHANGED dbVars

DownloadModel(filename) ==
    /\ \E download_ok \in BOOLEAN :
         LET r == download_model(Globals, filename, download_ok) IN
           SetGlobals(r.g) /\ Respond("download", filename, r.status)
    /\ UNCHANGED <<pc, local>>
    /\ UNCHANGED dbVars

UploadModel(filename) ==
    /\ LET r == save_uploaded_model(Globals, filename) IN
         SetGlobals(r.g) /\ Respond("upload", filename, r.status)
    /\ UNCHANGED <<pc, local>>
    /\ UNCHANGED dbVars

\* Process start with an empty or a provisioned models directory.
InitModels ==
    /\ installed \in {{}, {DEFAULT_MODEL_FILENAME}}
    /\ active_model = DEFAULT_MODEL_FILENAME
    /\ session = None
    /\ input_name = None
    /\ input_shape = None
    /\ output_name = None
    /\ pc = [p \in Procs |-> "idle"]
    /\ local = [p \in Procs |-> NoLocal]
    /\ resp = NoResp
    /\ fk_enforced = TRUE
    /\ EmptyDb

NextModels ==
    \/ GetStatus
    \/ \E img \in Images : ExtractFeatures(img)
    \/ \E f \in Names : ActivateModel(f)
    \/ \E f \in Names : DeleteModel(f)
    \/ \E f \in UploadNames : DownloadModel(f)
    \/ \E f \in UploadNames : UploadModel(f)

SpecModels == InitModels /\ [][NextModels]_vars

\* C2: a failed initialize() leaves the provider Uninitialized: no session
\* is retained, so the next initialize() attempts a fresh load.
C2_FailedInitializeLeavesNoSession ==
    (resp.op = "initialize" /\ resp.status = "ModelUnavailable") => session = None

\* C4: a delete call that names the artifact of the active model fails
\* with InvalidOperation and removes nothing, so no delete call removes the
\* artifact that is active when it is called: no such call succeeds.
C4_DeleteActiveRejected ==
    (resp.op = "delete" /\ FileOf(resp.arg) = FileOf(active_model)) =>
        resp.status # "ok"

\* C15: once a session is loaded it stays loaded, with its input and output
\* names, until a successful activate: no initialize, extraction, download,
\* upload or delete call resets or replaces it.
C15_SessionKeptUntilActivate ==
    [][(session # None /\ ~(resp'.op = "activate" /\ resp'.status = "ok")) =>
           UNCHANGED <<session, input_name, input_shape, output_name>>]_vars

C15_Witness ==
    /\ resp.op = "extract" /\ resp.status = "ExtractionFailed"
    /\ session # None
    /\ input_name = session /\ output_name = session

\* C16: activate of a name that has no installed artifact fails with
\* NotFound (and so leaves the active model and the session as they were).
C16_ActivateMissingNotFound ==
    (resp.op = "activate" /\ FileOf(resp.arg) \notin installed) =>
        resp.status = "NotFound"

\* C17: download and upload of a file name without the model-file extension
\* fail with ValidationError, and every file of the models directory is one
\* that list_available_models enumerates.
C17_OnlyModelFilesInstalled ==
    /\ (resp.op \in {"download", "upload"} /\ ~HasModelExtension(resp.arg)) =>
           resp.status = "ValidationError"
    /\ installed = list_available_models(Globals)

(***************************************************************************)
(* Vectors.  float32 values are fixed-point numbers with Q units per 1.0;  *)
(* a division rounds to the nearest unit, as a float32 operation rounds to *)
(* the nearest representable value.  A product of two such numbers, and    *)
(* hence a similarity, is in units of 1/(Q*Q).                             *)
(***************************************************************************)
Q == 100
One == Q * Q

\* MATCH_THRESHOLD = 0.25
MATCH_THRESHOLD == One \div 4

RECURSIVE SqrtSearch(_, _, _)
\* The largest c in lo..hi with c * c <= n.
SqrtSearch(n, lo, hi) ==
    IF lo >= hi THEN lo
    ELSE LET mid == (lo + hi + 1) \div 2 IN
         IF mid * mid <= n THEN SqrtSearch(n, mid, hi) ELSE SqrtSearch(n, lo, mid - 1)

\* sqrt(n) rounded to the nearest integer, n >= 0.
SqrtNearest(n) ==
    LET c == SqrtSearch(n, 0, n) IN
    IF n - c * c > c THEN c + 1 ELSE c

\* a / b rounded to the nearest integer (halves away from zero), b > 0.
RoundDiv(a, b) ==
    IF a >= 0 THEN (2 * a + b) \div (2 * b) ELSE -((2 * (-a) + b) \div (2 * b))

RECURSIVE SumSeq(_)
SumSeq(xs) == IF xs = <<>> THEN 0 ELSE Head(xs) + SumSeq(Tail(xs))

\* np.dot of two vectors of one length.
Dot(a, b) == SumSeq([k \in 1..Len(a) |-> a[k] * b[k]])

\* np.linalg.norm of the raw output, in units of 1/Q.
NormOf(logits) == SqrtNearest(Q * Q * Dot(logits, logits))

\* extract_features lines 287-292: embedding / norm when norm > 0.
L2Normalize(logits) ==
    LET norm == NormOf(logits) IN
    IF norm > 0
      THEN [k \in 1..Len(logits) |-> RoundDiv(logits[k] * Q * Q, norm)]
      ELSE [k \in 1..Len(logits) |-> 0]

\* What the network computes for the decodable image (line 285): one
\* output vector per model.  Both classifiers have outputs of one length;
\* the networks are unrelated, and so are their outputs for one image.
Logits(model, img) ==
    IF model = "mobilenetv2-12.onnx" THEN <<1, 1>> ELSE <<-1, 1>>

\* The vector extract_features returns on success.
FeatureVector(model, img) == L2Normalize(Logits(model, img))

(***************************************************************************)
(* identify_item lines 75-151: the matching of a query vector.             *)
(***************************************************************************)

RECURSIVE Gcd(_, _)
Gcd(a, b) == IF b = 0 THEN a ELSE Gcd(b, a % b)

\* Confidence without the cap of line 121.
ConfidenceUncapped(sim_val) ==
    LET range_span == One - MATCH_THRESHOLD
        g == Gcd(One, range_span)
        n == (1000000 \div One) * (sim_val - MATCH_THRESHOLD) * (One \div g)
        d == range_span \div g
        c == SqrtSearch(n \div d, 0, 2000)
    IN  IF 4 * n >= (4 * c * c + 4 * c + 1) * d THEN c + 1 ELSE c

\* lines 114-116 and 121: the confidence in tenths of a percent,
\* round(1000 * sqrt(adjusted_sim)) capped at 999, for sim_val at or above
\* the threshold.  adjusted_sim * 10^6 is the fraction n / d.
Confidence(sim_val) ==
    LET range_span == One - MATCH_THRESHOLD
        g == Gcd(One, range_span)
        n == (1000000 \div One) * (sim_val - MATCH_THRESHOLD) * (One \div g)
        d == range_span \div g
        c == SqrtSearch(n \div d, 0, 2000)
        tenths == IF 4 * n >= (4 * c * c + 4 * c + 1) * d THEN c + 1 ELSE c
    IN  IF tenths < 999 THEN tenths ELSE 999

\* ScoreResults without the comparison of line 112.
ScoreResultsUnfiltered(query_vector, all_embeddings) ==
    [k \in 1..Len(all_embeddings) |->
       LET sim_val == Dot(all_embeddings[k].embedding, query_vector) IN
         [item_id |-> all_embeddings[k].item_id,
          similarity |-> sim_val,
          confidence |-> IF sim_val >= MATCH_THRESHOLD THEN Confidence(sim_val) ELSE 0,
          reference_image |-> all_embeddings[k].image_url]]

\* lines 107-123: one result per stored embedding at or above the threshold.
ScoreResults(query_vector, all_embeddings) ==
    LET scored == [k \in 1..Len(all_embeddings) |->
                     LET sim_val == Dot(all_embeddings[k].embedding, query_vector) IN
                       [item_id |-> all_embeddings[k].item_id,
                        similarity |-> sim_val,
                        confidence |-> IF sim_val >= MATCH_THRESHOLD
                                         THEN Confidence(sim_val) ELSE 0,
                        reference_image |-> all_embeddings[k].image_url]]
        Keep(r) == r.similarity >= MATCH_THRESHOLD
    IN  SelectSeq(scored, Keep)

RECURSIVE InsertDesc(_, _)
\* r placed after every element whose similarity is not smaller.
InsertDesc(sorted, r) ==
    IF sorted = <<>> THEN <<r>>
    ELSE IF Head(sorted).similarity >= r.similarity
           THEN <<Head(sorted)>> \o InsertDesc(Tail(sorted), r)
           ELSE <<r>> \o sorted

RECURSIVE SortDesc(_, _)
\* line 126: results.sort(key=similarity, reverse=True), a stable sort.
SortDesc(results, sorted) ==
    IF results = <<>> THEN sorted
    ELSE SortDesc(Tail(results), InsertDesc(sorted, Head(results)))

RECURSIVE Dedupe(_, _, _, _)
\* lines 129-136: the first result of each item, until limit are kept.
Dedupe(results, seen_items, deduped_results, limit) ==
    IF results = <<>> \/ Len(deduped_results) >= limit THEN deduped_results
    ELSE LET r == Head(results) IN
         IF r.item_id \in seen_items
           THEN Dedupe(Tail(results), seen_items, deduped_results, limit)
           ELSE Dedupe(Tail(results), seen_items \cup {r.item_id},
                       Append(deduped_results, r), limit)

\* lines 139-149: matches whose item row is found.
FinalMatches(deduped_results, item_ids) ==
    LET Found(r) == r.item_id \in item_ids IN SelectSeq(deduped_results, Found)

\* MatchQuery without the sort of line 126.
MatchQueryUnsorted(query_vector, all_embeddings, item_ids, limit) ==
    IF all_embeddings = <<>> THEN [status |-> "ok", matches |-> <<>>]
    ELSE IF \E k \in 1..Len(all_embeddings) :
                Len(all_embeddings[k].embedding) # Len(query_vector)
           THEN [status |-> "InternalError", matches |-> <<>>]
           ELSE [status |-> "ok",
                 matches |-> FinalMatches(
                     Dedupe(ScoreResults(query_vector, all_embeddings), {}, <<>>, limit),
                     item_ids)]

\* MatchQuery answering an empty table (lines 76-78) with an error.
MatchQueryEmptyNotFound(query_vector, all_embeddings, item_ids, limit) ==
    IF all_embeddings = <<>> THEN [status |-> "NotFound", matches |-> <<>>]
    ELSE IF \E k \in 1..Len(all_embeddings) :
                Len(all_embeddings[k].embedding) # Len(query_vector)
           THEN [status |-> "InternalError", matches |-> <<>>]
           ELSE [status |-> "ok",
                 matches |-> FinalMatches(
                     Dedupe(SortDesc(ScoreResults(query_vector, all_embeddings), <<>>),
                            {}, <<>>, limit),
                     item_ids)]

\* lines 75-151.  Filling embedding_matrix (line 96) raises when a stored
\* vector has another length than the query.
MatchQuery(query_vector, all_embeddings, item_ids, limit) ==
    IF all_embeddings = <<>> THEN [status |-> "ok", matches |-> <<>>]
    ELSE IF \E k \in 1..Len(all_embeddings) :
                Len(all_embeddings[k].embedding) # Len(query_vector)
           THEN [status |-> "InternalError", matches |-> <<>>]
           ELSE [status |-> "ok",
                 matches |-> FinalMatches(
                     Dedupe(SortDesc(ScoreResults(query_vector, all_embeddings), <<>>),
                            {}, <<>>, limit),
                     item_ids)]

(***************************************************************************)
(* The database and the upload directory as one value.                     *)
(***************************************************************************)
Db == [locations |-> locations, items |-> items, history |-> history,
       embeddings |-> embeddings, uploads |-> uploads,
       next_item |-> next_item, next_upload |-> next_upload]

SetDb(db) ==
    /\ locations' = db.locations
    /\ items' = db.items
    /\ history' = db.history
    /\ embeddings' = db.embeddings
    /\ uploads' = db.uploads
    /\ next_item' = db.next_item
    /\ next_upload' = db.next_upload
    /\ UNCHANGED moreVars

Restrict(f, S) == [x \in S |-> f[x]]

\* Item.image_url of an item without an image (item.py, nullable column);
\* stored files are numbered from 1.
NoImage == 0

\* The rows of item_embeddings whose item_id is not in gone.
WithoutItems(all_embeddings, gone) ==
    LET Kept(e) == e.item_id \notin gone IN SelectSeq(all_embeddings, Kept)

\* The rows of a bulk DELETE on items: the database deletes the rows of
\* item_embeddings that reference them (item_embedding.py line 21,
\* ondelete="CASCADE") only when it enforces foreign keys.
BulkDeleteItems(db, gone, fk) ==
    [db EXCEPT !.items = Restrict(@, DOMAIN @ \ gone),
               !.history = @ \ gone,
               !.embeddings = IF fk THEN WithoutItems(@, gone) ELSE @]

\* cleanup_image (upload.py lines 50-55) for each of image_urls; every url
\* of the model is a local upload, and a missing file is passed over.
cleanup_image(files, image_urls) == files \ image_urls

\* create_location (locations.py lines 193-222) for a root room with a
\* fresh id.
create_location(db, location_id) ==
    [status |-> "ok", db |-> [db EXCEPT !.locations = @ \cup {location_id}]]

\* create_item (items.py lines 120-181): the item row and its initial
\* placement history.
create_item(db, current_location_id) ==
    IF current_location_id \notin db.locations
      THEN [status |-> "ValidationError", db |-> db]
      ELSE [status |-> "ok",
            db |-> [db EXCEPT
                      !.items = [i \in DOMAIN @ \cup {db.next_item} |->
                                   IF i = db.next_item
                                     THEN [current_location_id |-> current_location_id,
                                           image_url |-> NoImage]
                                     ELSE @[i]],
                      !.history = @ \cup {db.next_item},
                      !.next_item = @ + 1]]

\* delete_item (items.py lines 210-218).  db.delete(item) is an ORM delete:
\* the rows of Item.embeddings are deleted with it (item.py lines 98-103);
\* the rows of Item.movement_history, which has no delete cascade, get
\* item_id = NULL, which the NOT NULL column (history.py lines 38-43) refuses.
delete_item(db, item_id) ==
    IF item_id \notin DOMAIN db.items THEN [status |-> "NotFound", db |-> db]
    ELSE IF item_id \in db.history THEN [status |-> "InternalError", db |-> db]
    ELSE [status |-> "ok",
          db |-> [db EXCEPT !.items = Restrict(@, DOMAIN @ \ {item_id}),
                            !.embeddings = WithoutItems(@, {item_id})]]

\* delete_location (locations.py lines 308-369); a room has no ancestors,
\* its descendants are itself.
delete_location(db, location_id, fk) ==
    IF location_id \notin db.locations THEN [status |-> "NotFound", db |-> db]
    ELSE LET location_ids == {location_id}
             items_to_delete == {i \in DOMAIN db.items :
                                   db.items[i].current_location_id \in location_ids}
             images == {db.items[i].image_url : i \in items_to_delete}
             cleaned == [db EXCEPT !.uploads = cleanup_image(@, images)]
             deleted == BulkDeleteItems(cleaned, items_to_delete, fk)
         IN  [status |-> "ok",
              db |-> [deleted EXCEPT !.locations = @ \ location_ids]]

\* _wipe_all_tables (export.py lines 165-171)
WipeAllTables(db, fk) ==
    [BulkDeleteItems(db, DOMAIN db.items, fk) EXCEPT !.locations = {}, !.history = {}]

\* import_json (export.py lines 479-509) with the rows of a payload.
import_json(db, data, confirm_replace, fk) ==
    IF ~confirm_replace THEN [status |-> "ValidationError", db |-> db]
    ELSE [status |-> "ok",
          db |-> [WipeAllTables(db, fk) EXCEPT !.locations = data.locations,
                                               !.items = data.items,
                                               !.history = data.history]]

\* enroll_item with the image stored (lines 183-191) before the features
\* are extracted (lines 177-181).
enroll_item_upload_first(db, g, item_id, img, download_ok) ==
    IF item_id \notin DOMAIN db.items
      THEN [status |-> "NotFound", db |-> db, g |-> g]
      ELSE LET image_url == db.next_upload
               stored == [db EXCEPT !.uploads = @ \cup {image_url},
                                    !.next_upload = @ + 1]
               x == extract_features(g, img, download_ok)
           IN  IF ~x.ok THEN [status |-> "ExtractionFailed", db |-> stored, g |-> x.g]
               ELSE [status |-> "ok",
                     g |-> x.g,
                     db |-> [stored EXCEPT
                               !.embeddings = Append(@, [item_id |-> item_id,
                                                         image_url |-> image_url,
                                                         embedding |-> FeatureVector(x.model, img),
                                                         model |-> x.model]),
                               !.items[item_id].image_url =
                                   IF @ = NoImage THEN image_url ELSE @]]

\* enroll_item (identify.py lines 154-281), auto_tag = false.
enroll_item(db, g, item_id, img, download_ok) ==
    IF item_id \notin DOMAIN db.items
      THEN [status |-> "NotFound", db |-> db, g |-> g]
      ELSE LET x == extract_features(g, img, download_ok) IN
           IF ~x.ok THEN [status |-> "ExtractionFailed", db |-> db, g |-> x.g]
           ELSE LET image_url == db.next_upload
                    embedding == [item_id |-> item_id,
                                  image_url |-> image_url,
                                  embedding |-> FeatureVector(x.model, img),
                                  model |-> x.model]
                IN  [status |-> "ok",
                     g |-> x.g,
                     db |-> [db EXCEPT
                               !.uploads = @ \cup {image_url},
                               !.next_upload = @ + 1,
                               !.embeddings = Append(@, embedding),
                               !.items[item_id].image_url =
                                   IF @ = NoImage THEN image_url ELSE @]]

\* unenroll_item deleting only the first row of the query of line 289.
unenroll_item_first_only(db, item_id) ==
    LET Mine(e) == e.item_id = item_id
        mine == SelectSeq(db.embeddings, Mine)
        first == CHOOSE k \in 1..Len(db.embeddings) :
                     /\ db.embeddings[k].item_id = item_id
                     /\ \A n \in 1..(k - 1) : db.embeddings[n].item_id # item_id
    IN  IF mine = <<>> THEN [status |-> "NotFound", db |-> db]
        ELSE [status |-> "ok",
              db |-> [db EXCEPT
                        !.uploads = cleanup_image(@, {mine[1].image_url}),
                        !.embeddings = [n \in 1..(Len(@) - 1) |->
                                          IF n < first THEN @[n] ELSE @[n + 1]]]]

\* unenroll_item without the cleanup_image call of line 298.
unenroll_item_keep_images(db, item_id) ==
    LET Mine(e) == e.item_id = item_id
        mine == SelectSeq(db.embeddings, Mine)
    IN  IF mine = <<>> THEN [status |-> "NotFound", db |-> db]
        ELSE [status |-> "ok",
              db |-> [db EXCEPT !.embeddings = WithoutItems(@, {item_id})]]

\* unenroll_item without the check of lines 290-291.
unenroll_item_unchecked(db, item_id) ==
    LET Mine(e) == e.item_id = item_id
        mine == SelectSeq(db.embeddings, Mine)
    IN  [status |-> "ok",
         db |-> [db EXCEPT
                   !.uploads = cleanup_image(@, {mine[k].image_url : k \in 1..Len(mine)}),
                   !.embeddings = WithoutItems(@, {item_id})]]

\* unenroll_item (identify.py lines 284-303)
unenroll_item(db, item_id) ==
    LET Mine(e) == e.item_id = item_id
        mine == SelectSeq(db.embeddings, Mine)
    IN  IF mine = <<>> THEN [status |-> "NotFound", db |-> db]
        ELSE [status |-> "ok",
              db |-> [db EXCEPT
                        !.uploads = cleanup_image(@, {mine[k].image_url : k \in 1..Len(mine)}),
                        !.embeddings = WithoutItems(@, {item_id})]]

\* identify_item (identify.py lines 47-151) for an uploaded image.
identify_item(db, g, img, limit, download_ok) ==
    LET x == extract_features(g, img, download_ok) IN
    IF ~x.ok THEN [status |-> "ValidationError", matches |-> <<>>, g |-> x.g]
    ELSE LET m == MatchQuery(FeatureVector(x.model, img), db.embeddings,
                             DOMAIN db.items, limit)
         IN  [status |-> m.status, matches |-> m.matches, g |-> x.g]

(***************************************************************************)
(* SpecLens: the request handlers, one request at a time.                  *)
(***************************************************************************)
MaxItems == 1
MaxUploads == 2
MaxLimit == 2

Locations == {"l1"}
ItemIds == 0..MaxItems
Limits == 1..MaxLimit

\* Payloads of import_json: an empty export, and one room holding one item
\* (id 0, an id of the exporting device) without movement history.
ImportPayloads ==
    { [locations |-> {}, items |-> <<>>, history |-> {}],
      [locations |-> {"l1"},
       items |-> [i \in {0} |-> [current_location_id |-> "l1", image_url |-> NoImage]],
       history |-> {}] }

CreateLocation(location_id) ==
    /\ location_id \notin locations
    /\ LET r == create_location(Db, location_id) IN
         SetDb(r.db) /\ Respond("create_location", None, r.status)
    /\ UNCHANGED <<provVars, pc, local, fk_enforced>>

CreateItem(current_location_id) ==
    /\ next_item <= MaxItems
    /\ LET r == create_item(Db, current_location_id) IN
         SetDb(r.db) /\ Respond("create_item", None, r.status)
    /\ UNCHANGED <<provVars, pc, local, fk_enforced>>

DeleteItem(item_id) ==
    /\ LET r == delete_item(Db, item_id) IN
         SetDb(r.db) /\ Respond("delete_item", None, r.status)
    /\ UNCHANGED <<provVars, pc, local, fk_enforced>>

DeleteLocation(location_id) ==
    /\ LET r == delete_location(Db, location_id, fk_enforced) IN
         SetDb(r.db) /\ Respond("delete_location", None, r.status)
    /\ UNCHANGED <<provVars, pc, local, fk_enforced>>

ImportJson(data, confirm_replace) ==
    /\ LET r == import_json(Db, data, confirm_replace, fk_enforced) IN
         SetDb(r.db) /\ Respond("import", None, r.status)
    /\ UNCHANGED <<provVars, pc, local, fk_enforced>>

EnrollItem(item_id, img) ==
    /\ next_upload <= MaxUploads
    /\ LET r == enroll_item(Db, Globals, item_id, img, TRUE) IN
         SetDb(r.db) /\ SetGlobals(r.g) /\ Respond("enroll", None, r.status)
    /\ UNCHANGED <<pc, local, fk_enforced>>

UnenrollItem(item_id) ==
    /\ LET r == unenroll_item(Db, item_id) IN
         SetDb(r.db) /\ Respond("unenroll", None, r.status)
    /\ UNCHANGED <<provVars, pc, local, fk_enforced>>

IdentifyItem(img, limit) ==
    /\ LET r == identify_item(Db, Globals, img, limit, TRUE) IN
         /\ SetGlobals(r.g)
         /\ resp' = [op |-> "identify", arg |-> [img |-> img, limit |-> limit],
                     status |-> r.status, matches |-> r.matches]
    /\ UNCHANGED <<pc, local, dbVars>>

\* The two image classifiers of the models directory.
Classifiers == {"mobilenetv2-12.onnx", "squeezenet1.0-12.onnx"}

\* Process start of either deployment: PostgreSQL enforces foreign keys;
\* the packaged build uses SQLite (config.py lines 46-55) on an engine that
\* does not switch them on (database.py lines 9-17).
InitLens ==
    /\ installed = Classifiers
    /\ active_model = DEFAULT_MODEL_FILENAME
    /\ session = None
    /\ input_name = None
    /\ input_shape = None
    /\ output_name = None
    /\ pc = [p \in Procs |-> "idle"]
    /\ local = [p \in Procs |-> NoLocal]
    /\ resp = NoResp
    /\ fk_enforced \in BOOLEAN
    /\ EmptyDb

NextLens ==
    \/ \E l \in Locations : CreateLocation(l)
    \/ \E l \in Locations : CreateItem(l)
    \/ \E i \in ItemIds : DeleteItem(i)
    \/ \E l \in Locations : DeleteLocation(l)
    \/ \E data \in ImportPayloads, confirm_replace \in BOOLEAN : ImportJson(data, confirm_replace)
    \/ \E i \in ItemIds, img \in Images : EnrollItem(i, img)
    \/ \E i \in ItemIds : UnenrollItem(i)
    \/ \E img \in Images, limit \in Limits : IdentifyItem(img, limit)
    \/ \E f \in Classifiers : ActivateModel(f)

SpecLens == InitLens /\ [][NextLens]_vars

\* C3: every stored embedding compared in an identify query was produced
\* by the backend that produced the query vector.
C3_ComparedEmbeddingsShareBackend ==
    (resp.op = "identify" /\ resp.status = "ok") =>
        \A k \in 1..Len(embeddings) : embeddings[k].model = session

\* C5: an enroll whose feature extraction fails answers with the error and
\* leaves the embeddings, the stored images and the items as they were.
C5_FailedEnrollChangesNothing ==
    [][\A i \in ItemIds, img \in Images :
          (EnrollItem(i, img) /\ resp'.status = "ExtractionFailed") =>
              UNCHANGED dbVars]_vars

C5_Witness ==
    /\ resp.op = "enroll" /\ resp.status = "ExtractionFailed"
    /\ items # <<>>
    /\ embeddings # <<>>

\* C6: the item of every embedding record exists, whatever route deleted
\* items.
C6_EmbeddingOwnerExists ==
    \A k \in 1..Len(embeddings) : embeddings[k].item_id \in DOMAIN items

Min(a, b) == IF a <= b THEN a ELSE b

\* The items that have an embedding at or above the threshold for q.
QualifyingItems(q) ==
    {i \in DOMAIN items :
        \E k \in 1..Len(embeddings) :
            /\ embeddings[k].item_id = i
            /\ Dot(embeddings[k].embedding, q) >= MATCH_THRESHOLD}

\* C9: the match list of an identify query is non-increasing in similarity
\* and has min(limit, number of items with a qualifying embedding) entries.
C9_OrderedAndFull ==
    (resp.op = "identify" /\ resp.status = "ok") =>
        /\ \A j \in 1..(Len(resp.matches) - 1) :
               resp.matches[j].similarity >= resp.matches[j + 1].similarity
        /\ Len(resp.matches) =
               Min(resp.arg.limit,
                   Cardinality(QualifyingItems(FeatureVector(session, resp.arg.img))))

\* C10: every similarity reported by an identify query lies in [-1, 1].
C10_SimilarityInRange ==
    \A j \in 1..Len(resp.matches) :
        /\ resp.matches[j].similarity >= -One
        /\ resp.matches[j].similarity <= One

(***************************************************************************)
(* SpecMatch: the matching of identify_item over bounded corpora.          *)
(***************************************************************************)
RawMax == 1
MaxCorpus == 2

\* The vectors extract_features can return for outputs with entries 0..RawMax.
Vectors == {L2Normalize(<<a, b>>) : a \in 0..RawMax, b \in 0..RawMax}

StoredRows == [item_id : ItemIds, embedding : Vectors]

\* Tables of at most MaxCorpus embedding records.
Corpora ==
    UNION {[1..n -> StoredRows] : n \in 0..MaxCorpus}

\* The rows of all_embeddings = db.query(ItemEmbedding).all() for a corpus.
RowsOf(corpus) ==
    [k \in 1..Len(corpus) |->
       [item_id |-> corpus[k].item_id, image_url |-> k,
        embedding |-> corpus[k].embedding, model |-> DEFAULT_MODEL_FILENAME]]

\* lines 75-151 of identify_item for a query vector.
Match(query_vector, limit) ==
    /\ resp.op = None
    /\ LET m == MatchQuery(query_vector, embeddings, DOMAIN items, limit) IN
         resp' = [op |-> "match", arg |-> [query |-> query_vector, limit |-> limit],
                  status |-> m.status, matches |-> m.matches]
    /\ UNCHANGED <<provVars, pc, local, dbVars>>

\* A database whose items all exist, with the embeddings of a corpus.
InitMatch ==
    /\ installed = Classifiers
    /\ active_model = DEFAULT_MODEL_FILENAME
    /\ session = DEFAULT_MODEL_FILENAME
    /\ input_name = DEFAULT_MODEL_FILENAME
    /\ input_shape = DEFAULT_MODEL_FILENAME
    /\ output_name = DEFAULT_MODEL_FILENAME
    /\ pc = [p \in Procs |-> "idle"]
    /\ local = [p \in Procs |-> NoLocal]
    /\ resp = NoResp
    /\ fk_enforced = TRUE
    /\ locations = Locations
    /\ items = [i \in ItemIds |-> [current_location_id |-> "l1", image_url |-> NoImage]]
    /\ history = {}
    /\ \E corpus \in Corpora : embeddings = RowsOf(corpus)
    /\ uploads = 1..MaxCorpus
    /\ next_item = MaxItems + 1
    /\ next_upload = MaxCorpus + 1
    /\ NoMoreRows

NextMatch ==
    \E query_vector \in Vectors, limit \in Limits : Match(query_vector, limit)

SpecMatch == InitMatch /\ [][NextMatch]_vars

\* The similarities of the stored embeddings of item i to query q.
SimilaritiesOf(i, q) ==
    {Dot(embeddings[k].embedding, q) :
        k \in {n \in 1..Len(embeddings) : embeddings[n].item_id = i}}

C8_MatchesAtOrAboveThreshold ==
    resp.op = "match" =>
        \A j \in 1..Len(resp.matches) : resp.matches[j].similarity >= MATCH_THRESHOLD

C8_Witness ==
    /\ resp.op = "match"
    /\ Len(resp.matches) >= 1
    /\ \E k \in 1..Len(embeddings) :
           Dot(embeddings[k].embedding, resp.arg.query) < MATCH_THRESHOLD

\* The item ids of the rows of a table of embeddings.
EnrolledIn(all_embeddings) ==
    {all_embeddings[k].item_id : k \in 1..Len(all_embeddings)}

\* C12: identify returns only items that have embedding records: a
\* successful unenroll of an item leaves it without records, only an enroll
\* of that item gives it a record again, and every match of an identify
\* query is an item with a record.
C12_NoMatchWithoutEmbedding ==
    [][/\ \A i \in ItemIds :
             (UnenrollItem(i) /\ resp'.status = "ok") => i \notin EnrolledIn(embeddings')
       /\ \A i \in ItemIds :
             (i \notin EnrolledIn(embeddings) /\ i \in EnrolledIn(embeddings')) =>
                 \E img \in Images : EnrollItem(i, img)
       /\ \A img \in Images, limit \in Limits :
             IdentifyItem(img, limit) =>
                 \A j \in 1..Len(resp'.matches) :
                     resp'.matches[j].item_id \in EnrolledIn(embeddings)]_vars

C12_Witness ==
    /\ resp.op = "identify" /\ resp.status = "ok"
    /\ resp.matches = <<>>
    /\ 1 \in DOMAIN items
    /\ 1 \notin EnrolledIn(embeddings)
    /\ items[1].image_url # NoImage

\* C13: while a stored item has a record enrolled with image X, an identify
\* query with X succeeds and its top match is at or above the threshold and
\* is that item, or an item whose similarity equals that item's best.
C13_EnrolledImageIsTopMatch ==
    (resp.op = "identify" /\ resp.arg.img = "red") =>
        \A a \in DOMAIN items \cap EnrolledIn(embeddings) :
            /\ resp.status = "ok"
            /\ Len(resp.matches) >= 1
            /\ resp.matches[1].similarity >= MATCH_THRESHOLD
            /\ \/ resp.matches[1].item_id = a
               \/ \E k \in 1..Len(embeddings) :
                      /\ embeddings[k].item_id = a
                      /\ Dot(embeddings[k].embedding, FeatureVector(session, "red"))
                             = resp.matches[1].similarity

\* C18: a successful unenroll of an item deletes every embedding record of
\* the item and the stored image of each, and leaves the records and the
\* stored images of every other item as they were.
C18_UnenrollDeletesOnlyOwn ==
    [][\A i \in ItemIds :
          (UnenrollItem(i) /\ resp'.status = "ok") =>
              /\ i \notin EnrolledIn(embeddings')
              /\ \A k \in 1..Len(embeddings) :
                     embeddings[k].item_id = i => embeddings[k].image_url \notin uploads'
              /\ embeddings' = SelectSeq(embeddings, LAMBDA e : e.item_id # i)
              /\ \A k \in 1..Len(embeddings) :
                     (embeddings[k].item_id # i /\ embeddings[k].image_url \in uploads)
                         => embeddings[k].image_url \in uploads']_vars

C18_Witness ==
    /\ resp.op = "unenroll" /\ resp.status = "ok"
    /\ Len(embeddings) = 1
    /\ embeddings[1].image_url \in uploads
    /\ Cardinality(uploads) < next_upload - 1

\* C19: unenroll of an item that has no embedding record, known or not,
\* fails with NotFound and changes nothing.
C19_UnenrollWithoutRecordsNotFound ==
    [][\A i \in ItemIds :
          (UnenrollItem(i) /\ i \notin EnrolledIn(embeddings)) =>
              /\ resp'.status = "NotFound"
              /\ UNCHANGED <<dbVars, provVars>>]_vars

C19_Witness ==
    /\ resp.op = "unenroll" /\ resp.status = "NotFound"
    /\ 1 \in DOMAIN items
    /\ items[1].image_url # NoImage
    /\ embeddings = <<>>

(***************************************************************************)
(* SpecScore: lines 107-123 of identify_item applied to one stored vector, *)
(* for every similarity around the interval from the threshold to 1.       *)
(***************************************************************************)
SimMargin == 100

\* The similarities np.dot can give, from below the threshold to above 1.
Similarities == (MATCH_THRESHOLD - SimMargin)..(One + SimMargin)

\* A one-dimensional query of one unit against a stored value of sim_val
\* units: their product is sim_val.
Score(sim_val) ==
    /\ resp.op = None
    /\ resp' = [op |-> "score", arg |-> sim_val, status |-> "ok",
                matches |-> ScoreResults(<<1>>,
                    <<[item_id |-> 1, image_url |-> 1, embedding |-> <<sim_val>>,
                       model |-> DEFAULT_MODEL_FILENAME]>>)]
    /\ UNCHANGED <<provVars, pc, local, dbVars>>

InitScore ==
    /\ installed = Classifiers
    /\ active_model = DEFAULT_MODEL_FILENAME
    /\ session = DEFAULT_MODEL_FILENAME
    /\ input_name = DEFAULT_MODEL_FILENAME
    /\ input_shape = DEFAULT_MODEL_FILENAME
    /\ output_name = DEFAULT_MODEL_FILENAME
    /\ pc = [p \in Procs |-> "idle"]
    /\ local = [p \in Procs |-> NoLocal]
    /\ resp = NoResp
    /\ fk_enforced = TRUE
    /\ EmptyDb

NextScore == \E sim_val \in Similarities : Score(sim_val)

SpecScore == InitScore /\ [][NextScore]_vars

\* C11: the confidence of a match is between 0.0 and 99.9; it is 0.0 at the
\* threshold, 99.9 at similarity 1.0, and not smaller than the confidence of
\* the next smaller similarity (hence never decreasing in the similarity).
C11_ConfidenceBoundedMonotone ==
    resp.op = "score" =>
        \A j \in 1..Len(resp.matches) :
            LET m == resp.matches[j] IN
              /\ m.similarity = resp.arg
              /\ m.confidence >= 0 /\ m.confidence <= 999
              /\ m.similarity = MATCH_THRESHOLD => m.confidence = 0
              /\ m.similarity = One => m.confidence = 999
              /\ m.similarity > MATCH_THRESHOLD =>
                     ScoreResults(<<1>>,
                         <<[item_id |-> 1, image_url |-> 1,
                            embedding |-> <<m.similarity - 1>>,
                            model |-> DEFAULT_MODEL_FILENAME]>>)[1].confidence
                         <= m.confidence

C11_Witness ==
    /\ resp.op = "score"
    /\ resp.arg = One
    /\ Len(resp.matches) = 1
    /\ resp.matches[1].confidence = 999

(***************************************************************************)
(* SpecEnroll: enroll_item as a coroutine.  Two requests are served by the *)
(* event loop, which switches between them at the awaits of lines 175 and  *)
(* 190; each has its own database session (get_db).                        *)
(***************************************************************************)
Requests == {"r1", "r2"}

\* The frame of a request: item_id, the image sent, whether the item row it
\* read had an image_url, embedding_vector and the model it came from, and
\* image_url of the stored file.
NoRequest == [item_id |-> None, img |-> None, had_image |-> FALSE,
              embedding |-> <<>>, model |-> None, image_url |-> NoImage]

\* db.add(embedding) of lines 193-199 flushed by db.commit() of line 273, as
\* if the row replaced the item's earlier row.
StoreEmbeddingMerged(all_embeddings, embedding) ==
    Append(WithoutItems(all_embeddings, {embedding.item_id}), embedding)

\* db.add(embedding) of lines 193-199 flushed by db.commit() of line 273: an
\* INSERT of one row with a fresh id.
StoreEmbedding(all_embeddings, embedding) == Append(all_embeddings, embedding)

\* lines 166-175: the item is looked up; the coroutine awaits file.read().
EnrollBegin(r, item_id, img) ==
    /\ pc[r] = "idle"
    /\ next_upload + Cardinality({q \in Requests : pc[q] # "idle"}) <= MaxUploads
    /\ IF item_id \notin DOMAIN items
         THEN /\ Respond("enroll", None, "NotFound")
              /\ UNCHANGED <<pc, local>>
         ELSE /\ pc' = [pc EXCEPT ![r] = "extract"]
              /\ local' = [local EXCEPT ![r] =
                             [NoRequest EXCEPT !.item_id = item_id, !.img = img,
                                               !.had_image = items[item_id].image_url # NoImage]]
              /\ UNCHANGED resp
    /\ UNCHANGED <<provVars, dbVars>>

\* lines 177-190: extract_features; on success the coroutine awaits
\* upload_file.
EnrollExtract(r) ==
    /\ pc[r] = "extract"
    /\ LET x == extract_features(Globals, local[r].img, TRUE) IN
         /\ SetGlobals(x.g)
         /\ IF x.ok
              THEN /\ pc' = [pc EXCEPT ![r] = "store"]
                   /\ local' = [local EXCEPT ![r].embedding = FeatureVector(x.model, local[r].img),
                                             ![r].model = x.model]
                   /\ UNCHANGED resp
              ELSE /\ pc' = [pc EXCEPT ![r] = "idle"]
                   /\ local' = [local EXCEPT ![r] = NoRequest]
                   /\ Respond("enroll", None, "ExtractionFailed")
    /\ UNCHANGED dbVars

\* upload_file lines 36-47 and enroll_item lines 191-281 (auto_tag = false):
\* the file is written, the row is added, the item's empty image_url is set,
\* and the session commits.
EnrollCommit(r) ==
    /\ pc[r] = "store"
    /\ LET image_url == next_upload
           embedding == [item_id |-> local[r].item_id, image_url |-> image_url,
                         embedding |-> local[r].embedding, model |-> local[r].model]
       IN  /\ uploads' = uploads \cup {image_url}
           /\ next_upload' = next_upload + 1
           /\ embeddings' = StoreEmbedding(embeddings, embedding)
           /\ items' = IF local[r].had_image THEN items
                       ELSE [items EXCEPT ![local[r].item_id].image_url = image_url]
    /\ pc' = [pc EXCEPT ![r] = "idle"]
    /\ local' = [local EXCEPT ![r] = NoRequest]
    /\ Respond("enroll", None, "ok")
    /\ UNCHANGED <<provVars, fk_enforced, locations, history, next_item, moreVars>>

\* A database with a location and its items, no enrollment yet.
InitEnroll ==
    /\ installed = Classifiers
    /\ active_model = DEFAULT_MODEL_FILENAME
    /\ session = None
    /\ input_name = None
    /\ input_shape = None
    /\ output_name = None
    /\ pc = [r \in Requests |-> "idle"]
    /\ local = [r \in Requests |-> NoRequest]
    /\ resp = NoResp
    /\ fk_enforced \in BOOLEAN
    /\ locations = Locations
    /\ items = [i \in 1..MaxItems |-> [current_location_id |-> "l1", image_url |-> NoImage]]
    /\ history = 1..MaxItems
    /\ embeddings = <<>>
    /\ uploads = {}
    /\ next_item = MaxItems + 1
    /\ next_upload = 1
    /\ NoMoreRows

NextEnroll ==
    \E r \in Requests :
        \/ \E i \in ItemIds, img \in Images : EnrollBegin(r, i, img)
        \/ EnrollExtract(r)
        \/ EnrollCommit(r)

SpecEnroll == InitEnroll /\ [][NextEnroll]_vars

\* C20: a successful enroll adds exactly one embedding record, for its item,
\* and leaves every existing record as it was, also when enrollments of one
\* item interleave; nothing else changes the records.
C20_EnrollAppendsOneRecord ==
    [][/\ \A r \in Requests :
             EnrollCommit(r) =>
                 /\ resp'.status = "ok"
                 /\ Len(embeddings') = Len(embeddings) + 1
                 /\ SubSeq(embeddings', 1, Len(embeddings)) = embeddings
                 /\ embeddings'[Len(embeddings')].item_id = local[r].item_id
       /\ (\A r \in Requests : pc[r] # "store" \/ pc'[r] = "store") =>
              embeddings' = embeddings]_vars

C20_Witness ==
    /\ resp.op = "enroll" /\ resp.status = "ok"
    /\ Len(embeddings) = 1
    /\ \E r \in Requests :
           /\ pc[r] = "store"
           /\ local[r].item_id = embeddings[1].item_id
           /\ ~local[r].had_image

(***************************************************************************)
(* SpecThreshold: the matching of identify_item as a function of the value *)
(* of MATCH_THRESHOLD, over the corpora of SpecMatch.                      *)
(***************************************************************************)
MaxThresholdSteps == 13

\* Values of MATCH_THRESHOLD from 0.25 upwards in steps of 0.05.
Thresholds == {MATCH_THRESHOLD + k * (One \div 20) : k \in 0..MaxThresholdSteps}

\* lines 114-116 and 121 with MATCH_THRESHOLD = threshold.
ConfidenceAt(threshold, sim_val) ==
    LET range_span == One - threshold
        g == Gcd(One, range_span)
        n == (1000000 \div One) * (sim_val - threshold) * (One \div g)
        d == range_span \div g
        c == SqrtSearch(n \div d, 0, 2000)
        tenths == IF 4 * n >= (4 * c * c + 4 * c + 1) * d THEN c + 1 ELSE c
    IN  IF tenths < 999 THEN tenths ELSE 999

\* ScoreResultsAt with the comparison of line 112 turned round.
ScoreResultsAtBelow(threshold, query_vector, all_embeddings) ==
    LET scored == [k \in 1..Len(all_embeddings) |->
                     LET sim_val == Dot(all_embeddings[k].embedding, query_vector) IN
                       [item_id |-> all_embeddings[k].item_id,
                        similarity |-> sim_val,
                        confidence |-> IF sim_val >= threshold
                                         THEN ConfidenceAt(threshold, sim_val) ELSE 0,
                        reference_image |-> all_embeddings[k].image_url]]
        Keep(r) == r.similarity <= threshold
    IN  SelectSeq(scored, Keep)

\* lines 107-123 with MATCH_THRESHOLD = threshold.
ScoreResultsAt(threshold, query_vector, all_embeddings) ==
    LET scored == [k \in 1..Len(all_embeddings) |->
                     LET sim_val == Dot(all_embeddings[k].embedding, query_vector) IN
                       [item_id |-> all_embeddings[k].item_id,
                        similarity |-> sim_val,
                        confidence |-> IF sim_val >= threshold
                                         THEN ConfidenceAt(threshold, sim_val) ELSE 0,
                        reference_image |-> all_embeddings[k].image_url]]
        Keep(r) == r.similarity >= threshold
    IN  SelectSeq(scored, Keep)

\* lines 75-151 with MATCH_THRESHOLD = threshold.
MatchQueryAt(threshold, query_vector, all_embeddings, item_ids, limit) ==
    IF all_embeddings = <<>> THEN [status |-> "ok", matches |-> <<>>]
    ELSE IF \E k \in 1..Len(all_embeddings) :
                Len(all_embeddings[k].embedding) # Len(query_vector)
           THEN [status |-> "InternalError", matches |-> <<>>]
           ELSE [status |-> "ok",
                 matches |-> FinalMatches(
                     Dedupe(SortDesc(ScoreResultsAt(threshold, query_vector, all_embeddings),
                                     <<>>),
                            {}, <<>>, limit),
                     item_ids)]

\* One query and limit matched under every threshold.
MatchAt(query_vector, limit) ==
    /\ resp.op = None
    /\ resp' = [op |-> "match_at", arg |-> [query |-> query_vector, limit |-> limit],
                status |-> "ok",
                matches |-> [t \in Thresholds |->
                               MatchQueryAt(t, query_vector, embeddings,
                                            DOMAIN items, limit).matches]]
    /\ UNCHANGED <<provVars, pc, local, dbVars>>

NextThreshold ==
    \E query_vector \in Vectors, limit \in Limits : MatchAt(query_vector, limit)

SpecThreshold == InitMatch /\ [][NextThreshold]_vars

\* C21: for one corpus, query and limit, the match list under a threshold
\* is no longer than the match list under any smaller threshold.
C21_ThresholdMonotone ==
    resp.op = "match_at" =>
        \A t1, t2 \in Thresholds :
            t1 <= t2 => Len(resp.matches[t2]) <= Len(resp.matches[t1])

\* Some threshold returns a match, and a greater one returns fewer.
C21_Witness ==
    /\ resp.op = "match_at"
    /\ \E t1, t2 \in Thresholds :
           /\ t1 < t2
           /\ Len(resp.matches[t2]) >= 1
           /\ Len(resp.matches[t2]) < Len(resp.matches[t1])

C29_PrimaryImageStored ==
    \A i \in DOMAIN items :
        items[i].image_url # NoImage => items[i].image_url \in uploads

(***************************************************************************)
(* SpecLocations: create_location and update_location (locations.py) over *)
(* the kind and parent_id columns of table locations.                      *)
(***************************************************************************)
MaxLocations == 3

\* LocationKind (models/location.py lines 10-18)
LocationKinds == {"room", "furniture", "container", "surface", "portable",
                  "laundry_worn", "laundry_dirty"}

\* parent_id of a root location, and of a request that names no parent.
NoId == 0

LocationIds == 1..MaxLocations

\* VALID_PARENT_KINDS (locations.py lines 25-33); None is "no parent".
VALID_PARENT_KINDS(kind) ==
    CASE kind = "room" -> {None}
      [] kind = "furniture" -> {"room"}
      [] kind = "container" -> {"room", "furniture", "container", "surface", "portable"}
      [] kind = "surface" -> {"room", "furniture"}
      [] kind = "portable" -> {"room", "furniture", "surface", "container"}
      [] kind = "laundry_worn" -> {"room", "furniture"}
      [] kind = "laundry_dirty" -> {"room", "furniture"}
      [] OTHER -> {}

\* parent.kind if parent else None, for the row parent_id names (None when
\* the query finds no row).
ParentKind(rows, parent_id) ==
    IF parent_id \in DOMAIN rows THEN rows[parent_id].kind ELSE None

\* validate_location_hierarchy (lines 36-52): TRUE when nothing is raised.
validate_location_hierarchy(child_kind, parent_kind) ==
    parent_kind \in VALID_PARENT_KINDS(child_kind)

\* create_location (lines 193-222) for a kind and an optional parent; the
\* new row gets the next id.
create_location_of_kind(rows, kind, parent_id) ==
    IF parent_id # NoId /\ parent_id \notin DOMAIN rows
      THEN [status |-> "ValidationError", rows |-> rows]
    ELSE IF ~validate_location_hierarchy(kind, ParentKind(rows, parent_id))
      THEN [status |-> "ValidationError", rows |-> rows]
    ELSE [status |-> "ok",
          rows |-> Append(rows, [kind |-> kind, parent_id |-> parent_id])]

\* update_location (lines 241-286); kind = None and parent_id = NoId are
\* the fields the request leaves out.
update_location(rows, location_id, kind, parent_id) ==
    IF location_id \notin DOMAIN rows THEN [status |-> "NotFound", rows |-> rows]
    ELSE LET location == rows[location_id]
             new_parent_id == IF parent_id # NoId THEN parent_id ELSE location.parent_id
             new_kind == IF kind # None THEN kind ELSE location.kind
         IN  IF parent_id # NoId /\ parent_id = location_id
               THEN [status |-> "ValidationError", rows |-> rows]
             ELSE IF parent_id # NoId /\ parent_id \notin DOMAIN rows
               THEN [status |-> "ValidationError", rows |-> rows]
             ELSE IF (parent_id # NoId \/ kind # None)
                     /\ ~validate_location_hierarchy(new_kind, ParentKind(rows, new_parent_id))
               THEN [status |-> "ValidationError", rows |-> rows]
             ELSE [status |-> "ok",
                   rows |-> [rows EXCEPT ![location_id] =
                               [kind |-> new_kind, parent_id |-> new_parent_id]]]

CreateLocationOfKind(kind, parent_id) ==
    /\ Len(location_rows) < MaxLocations
    /\ LET r == create_location_of_kind(location_rows, kind, parent_id) IN
         /\ location_rows' = r.rows
         /\ Respond("create_location", None, r.status)
    /\ UNCHANGED <<provVars, pc, local>>
    /\ UNCHANGED <<fk_enforced, locations, items, history, embeddings, uploads,
                   next_item, next_upload, outfits, exported, sync_rows, clothing>>

UpdateLocation(location_id, kind, parent_id) ==
    /\ LET r == update_location(location_rows, location_id, kind, parent_id) IN
         /\ location_rows' = r.rows
         /\ Respond("update_location", None, r.status)
    /\ UNCHANGED <<provVars, pc, local>>
    /\ UNCHANGED <<fk_enforced, locations, items, history, embeddings, uploads,
                   next_item, next_upload, outfits, exported, sync_rows, clothing>>

InitLocations ==
    /\ installed = Classifiers
    /\ active_model = DEFAULT_MODEL_FILENAME
    /\ session = None
    /\ input_name = None
    /\ input_shape = None
    /\ output_name = None
    /\ pc = [p \in Procs |-> "idle"]
    /\ local = [p \in Procs |-> NoLocal]
    /\ resp = NoResp
    /\ fk_enforced = TRUE
    /\ EmptyDb

NextLocations ==
    \/ \E kind \in LocationKinds, parent_id \in {NoId} \cup LocationIds :
           CreateLocationOfKind(kind, parent_id)
    \/ \E location_id \in LocationIds, kind \in LocationKinds \cup {None},
          parent_id \in {NoId} \cup LocationIds :
           UpdateLocation(location_id, kind, parent_id)

SpecLocations == InitLocations /\ [][NextLocations]_vars

\* C26: the kind of every location and the kind of its parent (none for a
\* root) are a pair VALID_PARENT_KINDS allows.
C26_KindsFollowHierarchy ==
    \A id \in DOMAIN location_rows :
        ParentKind(location_rows, location_rows[id].parent_id)
            \in VALID_PARENT_KINDS(location_rows[id].kind)

RECURSIVE NthAncestor(_, _, _)
\* The location n steps up from id along parent_id, NoId past a root.
NthAncestor(rows, id, n) ==
    IF n = 0 \/ id \notin DOMAIN rows THEN id
    ELSE NthAncestor(rows, rows[id].parent_id, n - 1)

\* C27: no location is its own ancestor.
C27_ParentsAcyclic ==
    \A id \in DOMAIN location_rows :
        \A n \in 1..Len(location_rows) : NthAncestor(location_rows, id, n) # id

(***************************************************************************)
(* SpecSync: sync_push (sync.py lines 192-277) on one synchronised table.  *)
(* A timestamp a peer sends is a wall-clock reading with a UTC offset, in  *)
(* hours; the updated_at column of a local row is a naive UTC reading.     *)
(***************************************************************************)
MaxPush == 2
MaxClock == 2

\* The UTC offset of a peer that sends aware timestamps of another zone.
PeerOffset == 1

SyncIds == 1..2

\* TABLE_MODELS (lines 66-71) and a table name it does not hold.
TABLE_MODELS == {"items"}
TableNames == TABLE_MODELS \cup {"trips"}

\* SyncRecordBase (schemas/sync.py lines 16-22): parses = FALSE is a record
\* with a column value _parse_value or the flush raises on.
SyncRecords ==
    [table : TableNames, id : SyncIds,
     updated_at : [wall : 1..MaxClock, offset : {0, PeerOffset}], parses : BOOLEAN]

Pushes == UNION {[1..n -> SyncRecords] : n \in 0..MaxPush}

\* The instant of a timestamp as a naive UTC reading.
Instant(ts) == ts.wall - ts.offset

\* The row setattr writes from rec.data (lines 232-235, 259-263).
RowOf(rec) == [updated_at |-> rec.updated_at.wall, data |-> "peer"]

\* rows with the row of id set to row.
WithRow(rows, id, row) ==
    [i \in DOMAIN rows \cup {id} |-> IF i = id THEN row ELSE rows[i]]

\* One iteration of the loop of lines 207-267.  peer_ts.replace(tzinfo=None)
\* (lines 245-246) keeps the wall-clock reading; db.rollback() (lines 238,
\* 266) returns the session to the rows committed before the request.
push_record(acc, rec, committed) ==
    IF rec.table \notin TABLE_MODELS
      THEN [acc EXCEPT !.rejected = @ + 1, !.outcomes = Append(@, "rejected")]
    ELSE IF rec.id \notin DOMAIN acc.rows
      THEN IF rec.parses
             THEN [acc EXCEPT !.rows = WithRow(@, rec.id, RowOf(rec)),
                              !.accepted = @ + 1,
                              !.outcomes = Append(@, "accepted")]
             ELSE [acc EXCEPT !.rows = committed, !.rejected = @ + 1,
                              !.outcomes = Append(@, "rejected")]
    ELSE LET local_ts == acc.rows[rec.id].updated_at
             peer_ts == rec.updated_at.wall
         IN  IF local_ts >= peer_ts
               THEN [acc EXCEPT !.conflicts = @ + 1, !.outcomes = Append(@, "skipped")]
             ELSE IF rec.parses
               THEN [acc EXCEPT !.rows = WithRow(@, rec.id, RowOf(rec)),
                                !.accepted = @ + 1, !.conflicts = @ + 1,
                                !.outcomes = Append(@, "accepted")]
               ELSE [acc EXCEPT !.rows = committed, !.rejected = @ + 1,
                                !.outcomes = Append(@, "rejected")]

RECURSIVE push_records(_, _, _)
push_records(acc, records, committed) ==
    IF records = <<>> THEN acc
    ELSE push_records(push_record(acc, Head(records), committed), Tail(records), committed)

\* sync_push (lines 192-277): the counters of the response, the rows
\* committed at line 269, and what became of each record.
sync_push(rows, records) ==
    push_records([rows |-> rows, accepted |-> 0, rejected |-> 0, conflicts |-> 0,
                  outcomes |-> <<>>], records, rows)

\* One request per behaviour, from any table of InitSync.
SyncPush(records) ==
    /\ resp.op = None
    /\ LET r == sync_push(sync_rows, records) IN
         /\ sync_rows' = r.rows
         /\ resp' = [op |-> "sync_push",
                     arg |-> [records |-> records, before |-> sync_rows],
                     status |-> "ok", matches |-> <<>>,
                     accepted |-> r.accepted, rejected |-> r.rejected,
                     conflicts |-> r.conflicts, outcomes |-> r.outcomes]
    /\ UNCHANGED <<provVars, pc, local>>
    /\ UNCHANGED <<fk_enforced, locations, items, history, embeddings, uploads,
                   next_item, next_upload, location_rows, outfits, exported, clothing>>

\* Rows this device wrote itself or took from earlier pushes.
LocalTables ==
    UNION {[S -> [updated_at : 1..MaxClock, data : {"local", "peer"}]] :
             S \in SUBSET SyncIds}

InitSync ==
    /\ installed = Classifiers
    /\ active_model = DEFAULT_MODEL_FILENAME
    /\ session = None
    /\ input_name = None
    /\ input_shape = None
    /\ output_name = None
    /\ pc = [p \in Procs |-> "idle"]
    /\ local = [p \in Procs |-> NoLocal]
    /\ resp = NoResp
    /\ fk_enforced = TRUE
    /\ locations = {}
    /\ items = <<>>
    /\ history = {}
    /\ embeddings = <<>>
    /\ uploads = {}
    /\ next_item = 1
    /\ next_upload = 1
    /\ location_rows = <<>>
    /\ outfits = <<>>
    /\ exported = <<>>
    /\ sync_rows \in LocalTables
    /\ clothing = <<>>

NextSync == \E records \in Pushes : SyncPush(records)

SpecSync == InitSync /\ [][NextSync]_vars

\* The records of a push that name a known table, parse, and are the only
\* record of the push for their id.
SoleValidRecords(records) ==
    {k \in 1..Len(records) :
        /\ records[k].table \in TABLE_MODELS
        /\ records[k].parses
        /\ \A j \in 1..Len(records) : records[j].id = records[k].id => j = k}

\* C25: a pushed record with a new id is inserted; one with a known id
\* replaces the local row exactly when its updated_at is an instant after
\* the local updated_at, and otherwise the local row stays as it was.
C25_LastWriteWins ==
    resp.op = "sync_push" =>
        \A k \in SoleValidRecords(resp.arg.records) :
            LET rec == resp.arg.records[k]
                before == resp.arg.before
            IN  /\ rec.id \in DOMAIN sync_rows
                /\ IF rec.id \notin DOMAIN before THEN sync_rows[rec.id] = RowOf(rec)
                   ELSE IF Instant(rec.updated_at) > before[rec.id].updated_at
                          THEN sync_rows[rec.id] = RowOf(rec)
                          ELSE sync_rows[rec.id] = before[rec.id]

\* C28: the accepted count is the number of records whose insert or update
\* is in the table after the commit, and every record is counted once as
\* accepted, rejected or skipped.
C28_AcceptedAreStored ==
    resp.op = "sync_push" =>
        LET records == resp.arg.records
            Counted(o) == Cardinality({k \in 1..Len(records) : resp.outcomes[k] = o})
        IN  /\ resp.accepted = Counted("accepted")
            /\ Counted("accepted") + Counted("rejected") + Counted("skipped") = Len(records)
            /\ \A k \in 1..Len(records) :
                   (/\ resp.outcomes[k] = "accepted"
                    /\ \A j \in (k + 1)..Len(records) :
                           ~(records[j].id = records[k].id /\ resp.outcomes[j] = "accepted"))
                   => (/\ records[k].id \in DOMAIN sync_rows
                       /\ sync_rows[records[k].id] = RowOf(records[k]))

(***************************************************************************)
(* SpecWardrobe: the clothing handlers of wardrobe.py over item_data, the  *)
(* current location of each clothing item, and the outfits.                *)
(***************************************************************************)
MaxClothing == 2
MaxWears == 2
MaxOutfits == 1

ClothingIds == 1..MaxClothing

\* The metadata written by lines 253-264 and 557-567 for one wear.
Worn(meta) ==
    LET wear_count == meta.wear_count_since_wash + 1
        max_wears == meta.max_wears_before_wash
    IN  [meta EXCEPT !.wear_count_since_wash = wear_count,
                     !.cleanliness = IF wear_count >= max_wears THEN "dirty" ELSE "worn"]

\* create_clothing_item (lines 106-159); max_wears = 0 is a request that
\* leaves the threshold to the category's default.
create_clothing_item(c, locs, current_location_id, max_wears, default_threshold) ==
    IF current_location_id \notin locs THEN [status |-> "ValidationError", c |-> c]
    ELSE [status |-> "ok",
          c |-> Append(c, [wear_count_since_wash |-> 0,
                           max_wears_before_wash |->
                               IF max_wears # 0 THEN max_wears ELSE default_threshold,
                           cleanliness |-> "clean",
                           current_location_id |-> current_location_id,
                           permanent_location_id |-> current_location_id])]

\* update_clothing_item (lines 178-218) with max_wears_before_wash given.
update_clothing_item(c, item_id, max_wears) ==
    IF item_id \notin DOMAIN c THEN [status |-> "NotFound", c |-> c]
    ELSE [status |-> "ok", c |-> [c EXCEPT ![item_id].max_wears_before_wash = max_wears]]

\* wear_item (lines 223-272)
wear_item(c, item_id) ==
    IF item_id \notin DOMAIN c THEN [status |-> "NotFound", c |-> c]
    ELSE IF c[item_id].cleanliness \in {"dirty", "washing"}
      THEN [status |-> "ValidationError", c |-> c]
    ELSE [status |-> "ok", c |-> [c EXCEPT ![item_id] = Worn(@)]]

\* wash_item (lines 275-322)
wash_item(c, item_id) ==
    IF item_id \notin DOMAIN c THEN [status |-> "NotFound", c |-> c]
    ELSE [status |-> "ok",
          c |-> [c EXCEPT ![item_id].wear_count_since_wash = 0,
                          ![item_id].cleanliness = "clean",
                          ![item_id].current_location_id = c[item_id].permanent_location_id]]

\* move_to_laundry (lines 325-361)
move_to_laundry(c, locs, item_id) ==
    IF item_id \notin DOMAIN c THEN [status |-> "NotFound", c |-> c]
    ELSE IF "laundry_dirty" \notin locs THEN [status |-> "ValidationError", c |-> c]
    ELSE [status |-> "ok",
          c |-> [c EXCEPT ![item_id].current_location_id = "laundry_dirty",
                          ![item_id].cleanliness = "washing"]]

\* move_to_worn_basket (lines 364-402)
move_to_worn_basket(c, locs, item_id) ==
    IF item_id \notin DOMAIN c THEN [status |-> "NotFound", c |-> c]
    ELSE IF c[item_id].cleanliness = "dirty" THEN [status |-> "ValidationError", c |-> c]
    ELSE IF "laundry_worn" \notin locs THEN [status |-> "ValidationError", c |-> c]
    ELSE [status |-> "ok", c |-> [c EXCEPT ![item_id].current_location_id = "laundry_worn"]]

\* create_outfit (lines 447-470)
create_outfit(c, all_outfits, item_ids) ==
    IF \E k \in 1..Len(item_ids) : item_ids[k] \notin DOMAIN c
      THEN [status |-> "ValidationError", outfits |-> all_outfits]
      ELSE [status |-> "ok", outfits |-> Append(all_outfits, item_ids)]

RECURSIVE WearEach(_, _)
\* The loop of wear_outfit (lines 549-577).
WearEach(c, item_ids) ==
    IF item_ids = <<>> THEN c
    ELSE LET item_id == Head(item_ids) IN
         IF item_id \notin DOMAIN c \/ c[item_id].cleanliness \in {"dirty", "washing"}
           THEN WearEach(c, Tail(item_ids))
           ELSE WearEach([c EXCEPT ![item_id] = Worn(@)], Tail(item_ids))

\* wear_outfit (lines 541-592)
wear_outfit(c, all_outfits, outfit_id) ==
    IF outfit_id \notin DOMAIN all_outfits THEN [status |-> "NotFound", c |-> c]
    ELSE [status |-> "ok", c |-> WearEach(c, all_outfits[outfit_id])]

\* What the wardrobe handlers leave alone.
WardrobeUnchanged ==
    /\ UNCHANGED <<provVars, pc, local>>
    /\ UNCHANGED <<fk_enforced, locations, items, history, embeddings, uploads,
                   next_item, next_upload, location_rows, exported, sync_rows>>

CreateClothingItem(current_location_id, max_wears, default_threshold) ==
    /\ Len(clothing) < MaxClothing
    /\ LET r == create_clothing_item(clothing, locations, current_location_id,
                                     max_wears, default_threshold) IN
         clothing' = r.c /\ Respond("create_clothing_item", None, r.status)
    /\ UNCHANGED outfits /\ WardrobeUnchanged

UpdateClothingItem(item_id, max_wears) ==
    /\ LET r == update_clothing_item(clothing, item_id, max_wears) IN
         clothing' = r.c /\ Respond("update_clothing_item", item_id, r.status)
    /\ UNCHANGED outfits /\ WardrobeUnchanged

WearItem(item_id) ==
    /\ LET r == wear_item(clothing, item_id) IN
         clothing' = r.c /\ Respond("wear_item", item_id, r.status)
    /\ UNCHANGED outfits /\ WardrobeUnchanged

WashItem(item_id) ==
    /\ LET r == wash_item(clothing, item_id) IN
         clothing' = r.c /\ Respond("wash_item", item_id, r.status)
    /\ UNCHANGED outfits /\ WardrobeUnchanged

MoveToLaundry(item_id) ==
    /\ LET r == move_to_laundry(clothing, locations, item_id) IN
         clothing' = r.c /\ Respond("move_to_laundry", item_id, r.status)
    /\ UNCHANGED outfits /\ WardrobeUnchanged

MoveToWornBasket(item_id) ==
    /\ LET r == move_to_worn_basket(clothing, locations, item_id) IN
         clothing' = r.c /\ Respond("move_to_worn_basket", item_id, r.status)
    /\ UNCHANGED outfits /\ WardrobeUnchanged

CreateOutfit(item_ids) ==
    /\ Len(outfits) < MaxOutfits
    /\ LET r == create_outfit(clothing, outfits, item_ids) IN
         outfits' = r.outfits /\ Respond("create_outfit", None, r.status)
    /\ UNCHANGED clothing /\ WardrobeUnchanged

WearOutfit(outfit_id) ==
    /\ LET r == wear_outfit(clothing, outfits, outfit_id) IN
         clothing' = r.c /\ Respond("wear_outfit", outfit_id, r.status)
    /\ UNCHANGED outfits /\ WardrobeUnchanged

\* A closet, with or without the two laundry baskets.
InitWardrobe ==
    /\ installed = Classifiers
    /\ active_model = DEFAULT_MODEL_FILENAME
    /\ session = None
    /\ input_name = None
    /\ input_shape = None
    /\ output_name = None
    /\ pc = [p \in Procs |-> "idle"]
    /\ local = [p \in Procs |-> NoLocal]
    /\ resp = NoResp
    /\ fk_enforced = TRUE
    /\ \E baskets \in SUBSET {"laundry_dirty", "laundry_worn"} :
           locations = {"l1"} \cup baskets
    /\ items = <<>>
    /\ history = {}
    /\ embeddings = <<>>
    /\ uploads = {}
    /\ next_item = 1
    /\ next_upload = 1
    /\ NoMoreRows

NextWardrobe ==
    \/ \E max_wears \in 0..MaxWears, default_threshold \in 1..MaxWears :
           CreateClothingItem("l1", max_wears, default_threshold)
    \/ \E item_id \in ClothingIds, max_wears \in 1..MaxWears :
           UpdateClothingItem(item_id, max_wears)
    \/ \E item_id \in ClothingIds : WearItem(item_id)
    \/ \E item_id \in ClothingIds : WashItem(item_id)
    \/ \E item_id \in ClothingIds : MoveToLaundry(item_id)
    \/ \E item_id \in ClothingIds : MoveToWornBasket(item_id)
    \/ \E item_ids \in UNION {[1..n -> ClothingIds] : n \in 1..MaxClothing} :
           CreateOutfit(item_ids)
    \/ \E outfit_id \in 1..MaxOutfits : WearOutfit(outfit_id)

SpecWardrobe == InitWardrobe /\ [][NextWardrobe]_vars

MaxTree == 2

\* The tables of an export and the upload directory as one value.
Tables == [locations |-> location_rows, items |-> items, outfits |-> outfits,
           movement_history |-> history, uploads |-> uploads]

RECURSIVE visit(_, _, _, _)
\* visit of _topological_sort_locations (lines 183-191).  A call nested
\* deeper than there are locations never returns: Python raises
\* RecursionError.
visit(by_id, loc_id, acc, depth) ==
    IF acc.raised \/ loc_id \in acc.visited \/ loc_id \notin DOMAIN by_id THEN acc
    ELSE IF depth > Cardinality(DOMAIN by_id) THEN [acc EXCEPT !.raised = TRUE]
    ELSE LET parent == by_id[loc_id].parent_id
             up == IF parent # NoId /\ parent \in DOMAIN by_id
                     THEN visit(by_id, parent, acc, depth + 1) ELSE acc
         IN  IF up.raised THEN up
             ELSE [up EXCEPT !.visited = @ \cup {loc_id}, !.result = Append(@, loc_id)]

RECURSIVE VisitAll(_, _, _)
\* lines 193-194: for loc_id in by_id, in the order of the payload.
VisitAll(by_id, loc_ids, acc) ==
    IF loc_ids = <<>> THEN acc
    ELSE VisitAll(by_id, Tail(loc_ids), visit(by_id, Head(loc_ids), acc, 1))

\* _topological_sort_locations (lines 174-196): the ids in insertion order.
topological_sort_locations(locations_data) ==
    VisitAll(locations_data, [k \in 1..Len(locations_data) |-> k],
             [visited |-> {}, result |-> <<>>, raised |-> FALSE])

\* _build_export_dict (lines 127-147)
build_export_dict(t) ==
    [locations |-> t.locations, items |-> t.items, outfits |-> t.outfits,
     movement_history |-> t.movement_history]

\* _wipe_all_tables and _restore_from_dict (lines 165-171, 199-291): the
\* rows of data in the order they are added, uploads untouched.
restore_from_dict(t, data, sorted_locations) ==
    [locations |-> [k \in 1..Len(sorted_locations) |-> data.locations[sorted_locations[k]]],
     ids |-> sorted_locations]

\* The table a restore leaves: the rows restore_from_dict added, by id.
RestoredLocations(r) ==
    [id \in {r.ids[k] : k \in 1..Len(r.ids)} |->
       r.locations[CHOOSE k \in 1..Len(r.ids) : r.ids[k] = id]]

\* import_json (lines 479-509) for the payload of an export.
import_json_dict(t, data, confirm_replace) ==
    IF ~confirm_replace THEN [status |-> "ValidationError", t |-> t, order |-> <<>>]
    ELSE LET sorted == topological_sort_locations(data.locations) IN
         IF sorted.raised THEN [status |-> "InternalError", t |-> t, order |-> <<>>]
         ELSE [status |-> "ok",
               t |-> [locations |-> RestoredLocations(
                                       restore_from_dict(t, data, sorted.result)),
                      items |-> data.items, outfits |-> data.outfits,
                      movement_history |-> data.movement_history,
                      uploads |-> t.uploads],
               order |-> sorted.result]

\* import_archive with the tables wiped before the archive is examined.
import_archive_wipe_first(t, archive, confirm_replace) ==
    LET wiped == [locations |-> <<>>, items |-> <<>>, outfits |-> <<>>,
                  movement_history |-> {}, uploads |-> t.uploads]
    IN  IF ~confirm_replace THEN [status |-> "ValidationError", t |-> t, order |-> <<>>]
        ELSE IF archive.kind \in {"not_zip", "no_data_json", "bad_json"}
          THEN [status |-> "ValidationError", t |-> wiped, order |-> <<>>]
        ELSE LET r == import_json_dict(t, archive.data, TRUE) IN
             IF r.status # "ok" THEN r
             ELSE [r EXCEPT !.t.uploads =
                              IF archive.uploads # {} THEN archive.uploads ELSE @]

\* import_archive (lines 390-463): archive.kind is "not_zip" for a file
\* that is no ZIP archive, "no_data_json" and "bad_json" for archives
\* without a readable data.json, "archive" for the archive of an export.
import_archive(t, archive, confirm_replace) ==
    IF ~confirm_replace THEN [status |-> "ValidationError", t |-> t, order |-> <<>>]
    ELSE IF archive.kind \in {"not_zip", "no_data_json", "bad_json"}
      THEN [status |-> "ValidationError", t |-> t, order |-> <<>>]
    ELSE LET r == import_json_dict(t, archive.data, TRUE) IN
         IF r.status # "ok" THEN r
         ELSE [r EXCEPT !.t.uploads =
                          IF archive.uploads # {} THEN archive.uploads ELSE @]

SetTables(t) ==
    /\ location_rows' = t.locations
    /\ items' = t.items
    /\ outfits' = t.outfits
    /\ history' = t.movement_history
    /\ uploads' = t.uploads

BackupUnchanged ==
    /\ UNCHANGED <<provVars, pc, local>>
    /\ UNCHANGED <<fk_enforced, locations, embeddings, sync_rows, clothing>>

\* create_location for a tree of at most MaxTree locations.
CreateTreeLocation(kind, parent_id) ==
    /\ Len(location_rows) < MaxTree
    /\ CreateLocationOfKind(kind, parent_id)

\* create_item (items.py lines 120-181) in a location of the tree.
CreateItemAt(current_location_id) ==
    /\ next_item <= MaxItems
    /\ LET r == create_item([Db EXCEPT !.locations = DOMAIN location_rows],
                            current_location_id) IN
         /\ items' = r.db.items
         /\ history' = r.db.history
         /\ next_item' = r.db.next_item
         /\ Respond("create_item", None, r.status)
    /\ UNCHANGED <<location_rows, outfits, uploads, next_upload, exported>>
    /\ BackupUnchanged

\* upload_file (upload.py lines 19-47)
UploadFile ==
    /\ next_upload <= MaxUploads
    /\ uploads' = uploads \cup {next_upload}
    /\ next_upload' = next_upload + 1
    /\ Respond("upload_file", None, "ok")
    /\ UNCHANGED <<location_rows, items, outfits, history, next_item, exported>>
    /\ BackupUnchanged

\* export_all_data (lines 308-319) and export_archive (lines 323-353)
Export(with_uploads) ==
    /\ exported' = [data |-> build_export_dict(Tables),
                    uploads |-> IF with_uploads THEN uploads ELSE {}]
    /\ Respond("export", with_uploads, "ok")
    /\ UNCHANGED <<location_rows, items, outfits, history, uploads, next_item, next_upload>>
    /\ BackupUnchanged

ImportJsonDict(confirm_replace) ==
    /\ exported # <<>>
    /\ LET r == import_json_dict(Tables, exported.data, confirm_replace) IN
         /\ SetTables(r.t)
         /\ resp' = [op |-> "import_json",
                     arg |-> [kind |-> "json", confirm_replace |-> confirm_replace,
                              order |-> r.order],
                     status |-> r.status, matches |-> <<>>]
    /\ UNCHANGED <<next_item, next_upload, exported>>
    /\ BackupUnchanged

ImportArchive(kind, confirm_replace) ==
    /\ exported # <<>>
    /\ LET archive == [kind |-> kind, data |-> exported.data, uploads |-> exported.uploads]
           r == import_archive(Tables, archive, confirm_replace)
       IN  /\ SetTables(r.t)
           /\ resp' = [op |-> "import_archive",
                       arg |-> [kind |-> kind, confirm_replace |-> confirm_replace,
                                order |-> r.order],
                       status |-> r.status, matches |-> <<>>]
    /\ UNCHANGED <<next_item, next_upload, exported>>
    /\ BackupUnchanged

\* An installation with no outfit or with one outfit of no items.
InitBackup ==
    /\ installed = Classifiers
    /\ active_model = DEFAULT_MODEL_FILENAME
    /\ session = None
    /\ input_name = None
    /\ input_shape = None
    /\ output_name = None
    /\ pc = [p \in Procs |-> "idle"]
    /\ local = [p \in Procs |-> NoLocal]
    /\ resp = NoResp
    /\ fk_enforced = TRUE
    /\ locations = {}
    /\ items = <<>>
    /\ history = {}
    /\ embeddings = <<>>
    /\ uploads = {}
    /\ next_item = 1
    /\ next_upload = 1
    /\ location_rows = <<>>
    /\ outfits \in {<<>>, << <<>> >>}
    /\ exported = <<>>
    /\ sync_rows = <<>>
    /\ clothing = <<>>

BackupKinds == {"room", "furniture", "container"}

NextBackup ==
    \/ \E kind \in BackupKinds, parent_id \in {NoId} \cup 1..MaxTree :
           CreateTreeLocation(kind, parent_id)
    \/ \E location_id \in 1..MaxTree, kind \in BackupKinds \cup {None},
          parent_id \in {NoId} \cup 1..MaxTree :
           UpdateLocation(location_id, kind, parent_id)
    \/ \E l \in 1..MaxTree : CreateItemAt(l)
    \/ UploadFile
    \/ \E with_uploads \in BOOLEAN : Export(with_uploads)
    \/ \E confirm_replace \in BOOLEAN : ImportJsonDict(confirm_replace)
    \/ \E kind \in {"not_zip", "no_data_json", "bad_json", "archive"},
          confirm_replace \in BOOLEAN : ImportArchive(kind, confirm_replace)

SpecBackup == InitBackup /\ [][NextBackup]_vars

\* C23: an import without confirm_replace, of a file that is no ZIP
\* archive, or of an archive without data.json answers 400 and leaves every
\* table and the upload directory as they were.
C23_RejectedImportChangesNothing ==
    [][(/\ resp'.op \in {"import_json", "import_archive"}
        /\ \/ ~resp'.arg.confirm_replace
           \/ resp'.arg.kind \in {"not_zip", "no_data_json"})
       => (/\ resp'.status = "ValidationError"
           /\ UNCHANGED <<location_rows, items, outfits, history, uploads, embeddings>>)]_vars

\* An archive without data.json was rejected with confirm_replace set,
\* while the tables and the upload directory held data.
C23_Witness ==
    /\ resp.op = "import_archive"
    /\ resp.arg.kind = "no_data_json"
    /\ resp.arg.confirm_replace
    /\ resp.status = "ValidationError"
    /\ location_rows # <<>>
    /\ items # <<>>
    /\ uploads # {}

\* C24: an import with confirm_replace of the payload of an export
\* succeeds and leaves exactly the exported locations, items, outfits and
\* movement history, each parent location added before its children.
C24_ImportRestoresExport ==
    (/\ resp.op \in {"import_json", "import_archive"}
     /\ resp.arg.confirm_replace
     /\ resp.arg.kind \in {"json", "archive"})
    => /\ resp.status = "ok"
       /\ location_rows = exported.data.locations
       /\ items = exported.data.items
       /\ outfits = exported.data.outfits
       /\ history = exported.data.movement_history
       /\ \A j, k \in 1..Len(resp.arg.order) :
              location_rows[resp.arg.order[k]].parent_id = resp.arg.order[j] => j < k

====
